---- MODULE Spec2Model ----
(***************************************************************************)
(* DankTimesBot: the server's startup, nightly update and persistence      *)
(* handlers (src/src/server.ts), the DankTime value type                   *)
(* (src/src/dank-time/dank-time.ts), the Telegram client                   *)
(* (src/src/telegram-client/telegram-client.ts), and the collaborators     *)
(* the server drives through interfaces (scheduler, chat, file IO), which  *)
(* are modelled from the specification.                                    *)
(***************************************************************************)
EXTENDS Integers, Sequences, FiniteSets, TLC

\* ------------------------------------------------------------------ bounds
NumChats == 2       \* chats in the registry, iterated in insertion order 1..NumChats
NumRandom == 1      \* random dank times generated per chat per day
MaxDays == 2        \* the clock stops after this many days
MaxApiCalls == 3    \* direct scheduler calls explored by SchedSpec

\* ------------------------------------------------- constants and input sets
Day == 24           \* hours; the hardcore check's "24 hours"
Punishment == 1     \* configured hardcore score decrement
HalfDay == Day \div 2

Chats == 1..NumChats
Users == {"A", "B"}
RandomHours == {0, 23}
RandomMinutes == {59}
TextPool == <<"go">>
\* config.pointRange; its upper end lies outside the DankTime contract (1..100), so a
\* generation draws valid points or points the DankTime constructor rejects
PointRange == [min |-> 100, max |-> 101]
ManualDankTimes == << [hour |-> 13, minute |-> 37, texts |-> <<"1337">>, points |-> 5] >>

NoError == "none"
RangeError == "RangeError"
AlreadyScheduledError == "AlreadyScheduledError"

\* --------------------------------------------------------------- DankTime
RECURSIVE DedupeTextsReversing(_, _)
\* A constructor that puts each new text in front of those it kept.
DedupeTextsReversing(texts, acc) ==
  IF texts = <<>> THEN acc
  ELSE DedupeTextsReversing(Tail(texts),
                            IF \E i \in 1..Len(acc) : acc[i] = Head(texts)
                              THEN acc ELSE <<Head(texts)>> \o acc)

RECURSIVE DedupeTexts(_, _)
\* texts.forEach(text => { if (this.texts.indexOf(text) === -1) this.texts.push(text) })
DedupeTexts(texts, acc) ==
  IF texts = <<>> THEN acc
  ELSE DedupeTexts(Tail(texts),
                   IF \E i \in 1..Len(acc) : acc[i] = Head(texts)
                     THEN acc ELSE Append(acc, Head(texts)))

\* A constructor that clamps the hour into range instead of throwing.
DankTimeClamping(hour, minute, texts, points) ==
  IF minute < 0 \/ minute > 59 THEN [error |-> RangeError]
  ELSE IF Len(texts) < 1 THEN [error |-> RangeError]
  ELSE IF points < 1 \/ points > 100 THEN [error |-> RangeError]
  ELSE [hour |-> IF hour < 0 THEN 0 ELSE IF hour > 23 THEN 23 ELSE hour,
        minute |-> minute, texts |-> DedupeTexts(texts, <<>>), points |-> points]

\* new DankTime(hour, minute, texts, points): the object, or the error thrown
DankTime(hour, minute, texts, points) ==
  IF hour % 1 # 0 \/ hour < 0 \/ hour > 23 THEN [error |-> RangeError]
  ELSE IF minute % 1 # 0 \/ minute < 0 \/ minute > 59 THEN [error |-> RangeError]
  ELSE IF Len(texts) < 1 THEN [error |-> RangeError]
  ELSE IF points % 1 # 0 \/ points < 1 \/ points > 100 THEN [error |-> RangeError]
  ELSE [hour |-> hour, minute |-> minute,
        texts |-> DedupeTexts(texts, <<>>), points |-> points]

\* Whether a construction threw.
Failed(d) == "error" \in DOMAIN d

\* ------------------------------------------------------------------ state
VARIABLES
  phase,            \* "constructed" | "starting" | "idle" | "nightly" | "uncaught" | "exited"
  clock,            \* wall clock, in hours
  firedAt,          \* clock value of the latest nightly fire
  now,              \* const now = this.moment().unix() of the latest nightly fire
  cur,              \* forEach position: the chat the nightly callback is at
  step,             \* index in CycleSteps of the next call for chat cur
  running,          \* chat.running
  hardcoreMode,     \* chat.hardcoreMode
  users,            \* chat's member ledger: user -> [score, lastScoreChange]
  dankTimes,        \* chat's manual dank times
  randomDankTimes,  \* chat's random dank times
  generation,       \* identity of the chat's current random dank time list
  timers,           \* the scheduler's live timers
  nextHandle,       \* next cancellation handle
  callLog,          \* calls the latest nightly fire made, in order
  lastError,        \* the exception that left the latest handler, if any
  usersAtFire,      \* users as they were when the latest nightly fire began
  storage,          \* the chats file
  lastSave,         \* the latest persistence handler run
  intervalArmed,    \* the setInterval of scheduleChatsPersistence is live
  lastApi,          \* the latest direct scheduler call (SchedSpec)
  apiCalls,         \* number of direct scheduler calls (SchedSpec)
  apiScheduled,     \* chats whose random category a direct call scheduled, with no
                    \* unschedule of it since (SchedSpec)
  slot,             \* the DankTime objects a caller holds, by binding (DankSpec)
  lastOp,           \* the latest DankTime operation and what it returned or threw (DankSpec)
  cmp,              \* DankTime.compare over the objects held, once evaluated (DankSpec)
  commands,         \* TelegramClient.commands: name -> command, 0 where none is set
  cachedBotUsername,   \* TelegramClient.cachedBotUsername
  botUsernamePromise,  \* TelegramClient.botUsernamePromise: "null" | "pending" | "rejected"
  getMeCalls,       \* number of bot.getMe() requests made
  registrations,    \* the registerCommand calls made, in order, and where each stands
  textHandlers,     \* the bot's onText handlers, in the order they were installed
  onlyFirstMatch,   \* the bot's option: only the first matching handler is called
  message,          \* the incoming message being handled
  executions        \* the executeCommand calls made for the message, by handler

vars == <<phase, clock, firedAt, now, cur, step, running, hardcoreMode,
          users, dankTimes, randomDankTimes, generation, timers, nextHandle, callLog,
          lastError, usersAtFire, storage, lastSave, intervalArmed, lastApi, apiCalls,
          apiScheduled, slot, lastOp, cmp, commands, cachedBotUsername,
          botUsernamePromise, getMeCalls, registrations, textHandlers, onlyFirstMatch,
          message, executions>>

chatVars == <<users, randomDankTimes, generation, timers, nextHandle>>
persistVars == <<storage, lastSave, intervalArmed>>
apiVars == <<lastApi, apiCalls, apiScheduled>>
configVars == <<running, hardcoreMode, dankTimes>>
dankVars == <<slot, lastOp, cmp>>
registerVars == <<commands, cachedBotUsername, botUsernamePromise, getMeCalls,
                  registrations, textHandlers>>
clientVars == <<registerVars, onlyFirstMatch, message, executions>>
serverVars == <<phase, clock, firedAt, now, cur, step, callLog, lastError, usersAtFire,
                chatVars, persistVars, apiVars, configVars>>

\* The mutable part of the registry and scheduler that the calls below transform.
World == [users |-> users, randomDankTimes |-> randomDankTimes,
          generation |-> generation, timers |-> timers, nextHandle |-> nextHandle,
          error |-> NoError]

\* ----------------------------------------------------- scheduler (registry)
LiveTimers(T, c, category) == {t \in T : t.chat = c /\ t.category = category}

\* cancelCategory: cancels every handle of the category for the chat; idempotent
UnscheduleCategory(w, c, category) ==
  [w EXCEPT !.timers = w.timers \ LiveTimers(w.timers, c, category)]

\* A registry that cancels what is live and registers anew instead of refusing.
ScheduleCategoryReplacing(w, c, category, gen, count) ==
  [w EXCEPT
     !.timers = (w.timers \ LiveTimers(w.timers, c, category)) \cup
        {[chat |-> c, category |-> category, gen |-> gen, idx |-> i,
          handle |-> w.nextHandle + i - 1] : i \in 1..count},
     !.nextHandle = w.nextHandle + count]

\* register one timer per slot; a category that is already live is an error
ScheduleCategory(w, c, category, gen, count) ==
  IF LiveTimers(w.timers, c, category) # {}
    THEN [w EXCEPT !.error = AlreadyScheduledError]
    ELSE [w EXCEPT
            !.timers = w.timers \cup
               {[chat |-> c, category |-> category, gen |-> gen, idx |-> i,
                 handle |-> w.nextHandle + i - 1] : i \in 1..count},
            !.nextHandle = w.nextHandle + count]

unscheduleRandomDankTimesOfChat(w, c) == UnscheduleCategory(w, c, "random")
unscheduleAutoLeaderboardsOfChat(w, c) == UnscheduleCategory(w, c, "leaderboard")
scheduleRandomDankTimesOfChat(w, c) ==
  ScheduleCategory(w, c, "random", w.generation[c], Len(w.randomDankTimes[c]))
scheduleAutoLeaderboardsOfChat(w, c) == ScheduleCategory(w, c, "leaderboard", 0, 1)
scheduleDankTimesOfChat(w, c) ==
  ScheduleCategory(w, c, "manual", 0, Len(dankTimes[c]))

\* cancelAll
unscheduleAllOfChat(w, c) == [w EXCEPT !.timers = {t \in w.timers : t.chat # c}]

\* schedules every dank time and the leaderboard post; a no-op on a stopped chat
scheduleAllOfChat(w, c) ==
  IF ~running[c] THEN w
  ELSE IF \E t \in w.timers : t.chat = c
    THEN [w EXCEPT !.error = AlreadyScheduledError]
    ELSE scheduleAutoLeaderboardsOfChat(
           scheduleRandomDankTimesOfChat(scheduleDankTimesOfChat(w, c), c), c)

\* ------------------------------------------------------------------- chat
\* The draws one generation makes: NumRandom times (hour, minute, points).
Draws == [1..NumRandom -> [hour : RandomHours, minute : RandomMinutes,
                           points : PointRange.min..PointRange.max]]

\* Only generation draws; every other call is deterministic.
DrawsFor(op) == IF op = "generateRandomDankTimes" THEN Draws ELSE {CHOOSE d \in Draws : TRUE}

Generated(draw) ==
  [i \in 1..NumRandom |->
     DankTime(draw[i].hour, draw[i].minute, TextPool, draw[i].points)]

\* chat.generateRandomDankTimes(): replaces the list wholesale; a DankTime
\* constructor that throws leaves the chat's list as it was
generateRandomDankTimes(w, c, draw) ==
  IF \E i \in 1..NumRandom : Failed(Generated(draw)[i])
    THEN [w EXCEPT !.error = RangeError]
    ELSE [w EXCEPT !.randomDankTimes[c] = Generated(draw),
                   !.generation[c] = w.generation[c] + 1]

\* chat.hardcoreModeCheck(timestamp)
hardcoreModeCheck(w, c, timestamp) ==
  IF ~hardcoreMode[c] THEN w
  ELSE [w EXCEPT !.users[c] =
          [u \in DOMAIN w.users[c] |->
             IF timestamp - w.users[c][u].lastScoreChange > Day /\ w.users[c][u].score > 0
               THEN [score |-> w.users[c][u].score - Punishment,
                     lastScoreChange |-> timestamp]
               ELSE w.users[c][u]]]

\* chat.removeUsersWithZeroScore()
removeUsersWithZeroScore(w, c) ==
  [w EXCEPT !.users[c] =
     [u \in {v \in DOMAIN w.users[c] : w.users[c][v].score # 0} |-> w.users[c][u]]]

\* ---------------------------------------------------------------- server
\* A callback that regenerates before it unschedules.
CycleStepsRegenerateFirst ==
  << "generateRandomDankTimes",
     "unscheduleRandomDankTimesOfChat", "unscheduleAutoLeaderboardsOfChat",
     "scheduleRandomDankTimesOfChat", "scheduleAutoLeaderboardsOfChat",
     "hardcoreModeCheck", "removeUsersWithZeroScore" >>

\* A callback that prunes before it punishes.
CycleStepsPruneFirst ==
  << "unscheduleRandomDankTimesOfChat", "unscheduleAutoLeaderboardsOfChat",
     "generateRandomDankTimes",
     "scheduleRandomDankTimesOfChat", "scheduleAutoLeaderboardsOfChat",
     "removeUsersWithZeroScore", "hardcoreModeCheck" >>

\* A callback that leaves the leaderboard timer live before it schedules it anew.
CycleStepsKeepingLeaderboard ==
  << "unscheduleRandomDankTimesOfChat", "unscheduleRandomDankTimesOfChat",
     "generateRandomDankTimes",
     "scheduleRandomDankTimesOfChat", "scheduleAutoLeaderboardsOfChat",
     "hardcoreModeCheck", "removeUsersWithZeroScore" >>

\* The calls of one chat's nightly cycle, in the order the callback makes them.
CycleSteps ==
  << "unscheduleRandomDankTimesOfChat", "unscheduleAutoLeaderboardsOfChat",
     "generateRandomDankTimes",
     "scheduleRandomDankTimesOfChat", "scheduleAutoLeaderboardsOfChat",
     "hardcoreModeCheck", "removeUsersWithZeroScore" >>

\* A callback whose first call cancels every timer of the chat.
CallUnschedulingAll(op, w, c, draw, timestamp) ==
  CASE op = "unscheduleRandomDankTimesOfChat" -> unscheduleAllOfChat(w, c)
    [] op = "unscheduleAutoLeaderboardsOfChat" -> unscheduleAutoLeaderboardsOfChat(w, c)
    [] op = "generateRandomDankTimes" -> generateRandomDankTimes(w, c, draw)
    [] op = "scheduleRandomDankTimesOfChat" -> scheduleRandomDankTimesOfChat(w, c)
    [] op = "scheduleAutoLeaderboardsOfChat" -> scheduleAutoLeaderboardsOfChat(w, c)
    [] op = "hardcoreModeCheck" -> hardcoreModeCheck(w, c, timestamp)
    [] op = "removeUsersWithZeroScore" -> removeUsersWithZeroScore(w, c)
    [] op = "scheduleAllOfChat" -> scheduleAllOfChat(w, c)
    [] op = "unscheduleAllOfChat" -> unscheduleAllOfChat(w, c)

\* The receiver each call name resolves to.
Call(op, w, c, draw, timestamp) ==
  CASE op = "unscheduleRandomDankTimesOfChat" -> unscheduleRandomDankTimesOfChat(w, c)
    [] op = "unscheduleAutoLeaderboardsOfChat" -> unscheduleAutoLeaderboardsOfChat(w, c)
    [] op = "generateRandomDankTimes" -> generateRandomDankTimes(w, c, draw)
    [] op = "scheduleRandomDankTimesOfChat" -> scheduleRandomDankTimesOfChat(w, c)
    [] op = "scheduleAutoLeaderboardsOfChat" -> scheduleAutoLeaderboardsOfChat(w, c)
    [] op = "hardcoreModeCheck" -> hardcoreModeCheck(w, c, timestamp)
    [] op = "removeUsersWithZeroScore" -> removeUsersWithZeroScore(w, c)
    [] op = "scheduleAllOfChat" -> scheduleAllOfChat(w, c)
    [] op = "unscheduleAllOfChat" -> unscheduleAllOfChat(w, c)

\* A callback without the running test.
NightlyGuardMissing(c) == TRUE

\* Whether the nightly callback processes the chat: if (chat.running)
NightlyGuard(c) == running[c]

\* A callback that reads the clock again for each chat.
HardcoreNowReread(captured, wallClock) == wallClock

\* The timestamp handed to chat.hardcoreModeCheck: the captured const now.
HardcoreNow(captured, wallClock) == captured

SetWorld(w) ==
  /\ users' = w.users
  /\ randomDankTimes' = w.randomDankTimes
  /\ generation' = w.generation
  /\ timers' = w.timers
  /\ nextHandle' = w.nextHandle

\* Server.run(), lines 33-39: arms the persistence interval and registers the
\* exit handler, then enters generateAndScheduleRandomDankTimes.
Run ==
  /\ phase = "constructed"
  /\ phase' = "starting"
  /\ cur' = 1
  /\ intervalArmed' = TRUE
  /\ UNCHANGED <<clock, firedAt, now, step, callLog, lastError, usersAtFire, storage, lastSave>>
  /\ UNCHANGED chatVars
  /\ UNCHANGED configVars
  /\ UNCHANGED apiVars
  /\ UNCHANGED dankVars
  /\ UNCHANGED clientVars

\* generateAndScheduleRandomDankTimes, one chat of the forEach:
\* chat.generateRandomDankTimes(); scheduler.scheduleAllOfChat(chat).
\* An exception leaves the forEach and run() at once.
GenerateAndSchedule ==
  /\ phase = "starting"
  /\ cur <= NumChats
  /\ \E draw \in Draws :
       LET g == generateRandomDankTimes(World, cur, draw)
           w == IF g.error # NoError THEN g ELSE scheduleAllOfChat(g, cur)
       IN /\ SetWorld(w)
          /\ lastError' = w.error
          /\ IF w.error # NoError
               THEN phase' = "uncaught" /\ cur' = cur
               ELSE phase' = phase /\ cur' = cur + 1
  /\ UNCHANGED <<clock, firedAt, now, step, callLog, usersAtFire>>
  /\ UNCHANGED configVars
  /\ UNCHANGED persistVars
  /\ UNCHANGED apiVars
  /\ UNCHANGED dankVars
  /\ UNCHANGED clientVars

\* Server.run(), lines 46-52: the nightly cron job is created and run() returns.
RunDone ==
  /\ phase = "starting"
  /\ cur > NumChats
  /\ phase' = "idle"
  /\ UNCHANGED <<clock, firedAt, now, cur, step, callLog, lastError, usersAtFire>>
  /\ UNCHANGED chatVars
  /\ UNCHANGED configVars
  /\ UNCHANGED persistVars
  /\ UNCHANGED apiVars
  /\ UNCHANGED dankVars
  /\ UNCHANGED clientVars

\* Time passes, also while the nightly callback runs; a due nightly fire is not
\* skipped and a nightly callback returns before the next midnight.
Tick ==
  /\ phase \in {"idle", "nightly"}
  /\ clock < MaxDays * Day
  /\ ~(phase = "idle" /\ clock % Day = 0 /\ firedAt # clock)
  /\ ~(phase = "nightly" /\ (clock + HalfDay) % Day = 0)
  /\ clock' = clock + HalfDay
  /\ UNCHANGED <<phase, firedAt, now, cur, step, callLog, lastError, usersAtFire>>
  /\ UNCHANGED chatVars
  /\ UNCHANGED configVars
  /\ UNCHANGED persistVars
  /\ UNCHANGED apiVars
  /\ UNCHANGED dankVars
  /\ UNCHANGED clientVars

\* The cron job "0 0 0 * * *" fires: the callback starts and reads now.
NightlyFire ==
  /\ phase = "idle"
  /\ clock % Day = 0
  /\ firedAt # clock
  /\ phase' = "nightly"
  /\ firedAt' = clock
  /\ now' = clock
  /\ cur' = 1
  /\ step' = 1
  /\ callLog' = <<>>
  /\ lastError' = NoError
  /\ usersAtFire' = users
  /\ UNCHANGED <<clock>>
  /\ UNCHANGED chatVars
  /\ UNCHANGED configVars
  /\ UNCHANGED persistVars
  /\ UNCHANGED apiVars
  /\ UNCHANGED dankVars
  /\ UNCHANGED clientVars

\* The callback makes the next call of the running chat it is at.
NightlyCall ==
  /\ phase = "nightly"
  /\ cur <= NumChats
  /\ NightlyGuard(cur)
  /\ \E draw \in DrawsFor(CycleSteps[step]) :
       LET op == CycleSteps[step]
           t == HardcoreNow(now, clock)
           w == Call(op, World, cur, draw, t)
       IN /\ SetWorld(w)
          /\ callLog' = Append(callLog, [chat |-> cur, op |-> op,
                                         arg |-> IF op = "hardcoreModeCheck" THEN t ELSE 0,
                                         at |-> IF op = "hardcoreModeCheck" THEN clock ELSE 0,
                                         error |-> w.error])
          /\ lastError' = w.error
          /\ IF w.error # NoError
               THEN phase' = "uncaught" /\ UNCHANGED <<cur, step>>
               ELSE /\ phase' = phase
                    /\ IF step < Len(CycleSteps)
                         THEN step' = step + 1 /\ cur' = cur
                         ELSE step' = 1 /\ cur' = cur + 1
  /\ UNCHANGED <<clock, firedAt, now, usersAtFire>>
  /\ UNCHANGED configVars
  /\ UNCHANGED persistVars
  /\ UNCHANGED apiVars
  /\ UNCHANGED dankVars
  /\ UNCHANGED clientVars

\* The callback passes over a chat that is not running.
NightlySkip ==
  /\ phase = "nightly"
  /\ cur <= NumChats
  /\ ~NightlyGuard(cur)
  /\ cur' = cur + 1
  /\ UNCHANGED <<phase, clock, firedAt, now, step, callLog, lastError, usersAtFire>>
  /\ UNCHANGED chatVars
  /\ UNCHANGED configVars
  /\ UNCHANGED persistVars
  /\ UNCHANGED apiVars
  /\ UNCHANGED dankVars
  /\ UNCHANGED clientVars

\* The forEach is over: the callback returns.
NightlyDone ==
  /\ phase = "nightly"
  /\ cur > NumChats
  /\ phase' = "idle"
  /\ UNCHANGED <<clock, firedAt, now, cur, step, callLog, lastError, usersAtFire>>
  /\ UNCHANGED chatVars
  /\ UNCHANGED configVars
  /\ UNCHANGED persistVars
  /\ UNCHANGED apiVars
  /\ UNCHANGED dankVars
  /\ UNCHANGED clientVars

\* ------------------------------------------------------------- persistence
NoFile == <<>>
SaveOutcomes == {"done", "failed"}

\* The chats handed to saveChatsToFile: this.chatRegistry.chats, the whole registry.
SavedChats == Chats

\* What a snapshot holds of each chat.
Snapshot(cs) ==
  [c \in cs |-> [running |-> running[c], hardcoreMode |-> hardcoreMode[c],
                 users |-> users[c], dankTimes |-> dankTimes[c],
                 randomDankTimes |-> randomDankTimes[c]]]

\* fileIO.saveChatsToFile(chats): replaces the whole file, or fails and leaves it
saveChatsToFile(file, chats, outcome) ==
  IF outcome = "done" THEN Snapshot(chats) ELSE file

\* A callback that clears its interval when the save fails.
PeriodicSnapshotStopping ==
  /\ phase = "idle"
  /\ intervalArmed
  /\ \E outcome \in SaveOutcomes :
       /\ storage' = saveChatsToFile(storage, SavedChats, outcome)
       /\ lastSave' = [trigger |-> "periodic", outcome |-> outcome, calls |-> 1,
                       previous |-> [trigger |-> lastSave.trigger, outcome |-> lastSave.outcome]]
       /\ intervalArmed' = (outcome = "done")
  /\ UNCHANGED <<phase, clock, firedAt, now, cur, step, callLog, lastError, usersAtFire>>
  /\ UNCHANGED chatVars
  /\ UNCHANGED configVars
  /\ UNCHANGED apiVars
  /\ UNCHANGED dankVars
  /\ UNCHANGED clientVars

\* An interval callback that runs whenever it is due, also inside another callback.
PeriodicSnapshotInterleaving ==
  /\ phase \in {"idle", "nightly"}
  /\ intervalArmed
  /\ \E outcome \in SaveOutcomes :
       /\ storage' = saveChatsToFile(storage, SavedChats, outcome)
       /\ lastSave' = [trigger |-> "periodic", outcome |-> outcome, calls |-> 1,
                       previous |-> [trigger |-> lastSave.trigger, outcome |-> lastSave.outcome]]
  /\ UNCHANGED <<phase, clock, firedAt, now, cur, step, callLog, lastError, usersAtFire,
                 intervalArmed>>
  /\ UNCHANGED chatVars
  /\ UNCHANGED configVars
  /\ UNCHANGED apiVars
  /\ UNCHANGED dankVars
  /\ UNCHANGED clientVars

\* The setInterval callback of scheduleChatsPersistence: one save, its outcome unused.
PeriodicSnapshot ==
  /\ phase = "idle"
  /\ intervalArmed
  /\ \E outcome \in SaveOutcomes :
       /\ storage' = saveChatsToFile(storage, SavedChats, outcome)
       /\ lastSave' = [trigger |-> "periodic", outcome |-> outcome, calls |-> 1,
                       previous |-> [trigger |-> lastSave.trigger, outcome |-> lastSave.outcome]]
  /\ UNCHANGED <<phase, clock, firedAt, now, cur, step, callLog, lastError, usersAtFire,
                 intervalArmed>>
  /\ UNCHANGED chatVars
  /\ UNCHANGED configVars
  /\ UNCHANGED apiVars
  /\ UNCHANGED dankVars
  /\ UNCHANGED clientVars

\* An exit on which no handler saves.
ExitWithoutSaving ==
  /\ phase \in {"idle", "uncaught"}
  /\ phase' = "exited"
  /\ intervalArmed' = FALSE
  /\ UNCHANGED <<clock, firedAt, now, cur, step, callLog, lastError, usersAtFire,
                 storage, lastSave>>
  /\ UNCHANGED chatVars
  /\ UNCHANGED configVars
  /\ UNCHANGED apiVars
  /\ UNCHANGED dankVars
  /\ UNCHANGED clientVars

\* The nodeCleanup handler of ensureChatsPersistenceOnExit: runs when the process
\* is about to exit (a signal while idle, or an exception no handler caught),
\* saves once and returns true, after which the process exits.
Exit ==
  /\ phase \in {"idle", "uncaught"}
  /\ \E outcome \in SaveOutcomes :
       /\ storage' = saveChatsToFile(storage, SavedChats, outcome)
       /\ lastSave' = [trigger |-> "shutdown", outcome |-> outcome, calls |-> 1,
                       previous |-> [trigger |-> lastSave.trigger, outcome |-> lastSave.outcome]]
  /\ phase' = "exited"
  /\ intervalArmed' = FALSE
  /\ UNCHANGED <<clock, firedAt, now, cur, step, callLog, lastError, usersAtFire>>
  /\ UNCHANGED chatVars
  /\ UNCHANGED configVars
  /\ UNCHANGED apiVars
  /\ UNCHANGED dankVars
  /\ UNCHANGED clientVars

\* ------------------------------------------------- direct scheduler calls
ApiOps == {"scheduleRandomDankTimesOfChat", "unscheduleRandomDankTimesOfChat",
           "scheduleAutoLeaderboardsOfChat", "unscheduleAutoLeaderboardsOfChat",
           "scheduleAllOfChat", "unscheduleAllOfChat"}

\* A caller other than the nightly update (a command, a chat's creation) makes one
\* scheduler call; an error is surfaced to that caller.
ApiCall ==
  /\ phase = "idle"
  /\ apiCalls < MaxApiCalls
  /\ \E c \in Chats, op \in ApiOps :
       LET w == Call(op, World, c, CHOOSE d \in Draws : TRUE, 0)
       IN /\ SetWorld(w)
          /\ lastApi' = [chat |-> c, op |-> op, error |-> w.error]
          /\ apiScheduled' =
               IF op = "scheduleRandomDankTimesOfChat" /\ w.error = NoError
                 THEN apiScheduled \cup {c}
               ELSE IF op \in {"unscheduleRandomDankTimesOfChat", "unscheduleAllOfChat"}
                 THEN apiScheduled \ {c}
               ELSE apiScheduled
  /\ apiCalls' = apiCalls + 1
  /\ UNCHANGED <<phase, clock, firedAt, now, cur, step, callLog, lastError, usersAtFire>>
  /\ UNCHANGED configVars
  /\ UNCHANGED persistVars
  /\ UNCHANGED dankVars
  /\ UNCHANGED clientVars

\* A command starts or stops a chat while no callback runs: chat.running changes,
\* and the command may tell the scheduler (a stop cancels the chat's timers, a
\* start schedules them if none is live) or leave the timers as they are.
SetRunning ==
  /\ phase = "idle"
  /\ apiCalls < MaxApiCalls
  /\ \E c \in Chats, told \in BOOLEAN :
       LET w == IF ~told THEN World
                ELSE IF running[c] THEN unscheduleAllOfChat(World, c)
                ELSE IF \E t \in timers : t.chat = c THEN World
                ELSE scheduleAutoLeaderboardsOfChat(
                       scheduleRandomDankTimesOfChat(scheduleDankTimesOfChat(World, c), c), c)
       IN /\ SetWorld(w)
          /\ running' = [running EXCEPT ![c] = ~running[c]]
  /\ apiCalls' = apiCalls + 1
  /\ UNCHANGED <<phase, clock, firedAt, now, cur, step, callLog, lastError, usersAtFire>>
  /\ UNCHANGED <<hardcoreMode, dankTimes, lastApi, apiScheduled>>
  /\ UNCHANGED persistVars
  /\ UNCHANGED dankVars
  /\ UNCHANGED clientVars

\* ---------------------------------------------------- DankTime operations
\* String.prototype.toUpperCase, over the strings the model constructs and queries
ToUpperCase(s) ==
  CASE s \in {"Go", "go", "GO"} -> "GO"
    [] s \in {"Potato", "potato", "POTATO"} -> "POTATO"
    [] OTHER -> s

\* A setter that accepts what it is given.
SetPointsUnchecked(d, points) == [d EXCEPT !.points = points]

\* set points(points): the object after the assignment, or the error thrown
SetPoints(d, points) ==
  IF points % 1 # 0 \/ points < 1 \/ points > 100 THEN [error |-> RangeError]
  ELSE [d EXCEPT !.points = points]

\* A lookup that compares the texts as they are.
hasTextExact(d, text) == \E i \in 1..Len(d.texts) : d.texts[i] = text

\* hasText(text)
hasText(d, text) ==
  \E i \in 1..Len(d.texts) : ToUpperCase(d.texts[i]) = ToUpperCase(text)

\* toJSON(): the literal { hour, minute, texts, points }
toJSON(d) == [hour |-> d.hour, minute |-> d.minute, texts |-> d.texts, points |-> d.points]

\* DankTime.fromJSON(literal)
fromJSON(literal) == DankTime(literal.hour, literal.minute, literal.texts, literal.points)

\* A comparison that looks at the hour only.
compareHourOnly(a, b) ==
  IF a.hour < b.hour THEN 0 - 1
  ELSE IF a.hour > b.hour THEN 1
  ELSE 0

\* DankTime.compare(a, b)
compare(a, b) ==
  IF a.hour < b.hour THEN 0 - 1
  ELSE IF a.hour > b.hour THEN 1
  ELSE IF a.minute < b.minute THEN 0 - 1
  ELSE IF a.minute > b.minute THEN 1
  ELSE 0

\* Arguments a caller passes to the constructor, or finds in a stored literal.
HoursIn == {0 - 1, 0, 23, 24}
MinutesIn == {0 - 1, 0, 59, 60}
PointsIn == {0, 1, 100, 101}
TextsIn == {<<>>, <<"Go", "go", "GO">>, <<"go", "Potato", "go">>}
Queries == {"POTATO", "go", "1337"}
Inputs == [hour : HoursIn, minute : MinutesIn, texts : TextsIn, points : PointsIn]
\* The further operands of a comparison differ from each other in hour and minute.
OperandInputs == [hour : {0, 23}, minute : {0, 59}, texts : {<<"1337">>}, points : {1}]

\* The bindings through which a caller holds DankTime objects.
Bindings == <<"a", "b", "c">>
BindingSet == {Bindings[i] : i \in 1..Len(Bindings)}
Unbound == [unbound |-> TRUE]
Bound(x) == slot[x] # Unbound
NoComparison == <<>>

\* const x = new DankTime(hour, minute, texts, points), or
\* const x = DankTime.fromJSON(literal): a constructor that throws binds nothing.
\* The bindings are made in order.
Construct ==
  \E i \in 1..Len(Bindings), via \in {"new", "fromJSON"} :
    /\ ~Bound(Bindings[i])
    /\ \A j \in 1..(i - 1) : Bound(Bindings[j])
    /\ \E in \in (IF i = 1 THEN Inputs ELSE OperandInputs) :
         LET d == IF via = "new" THEN DankTime(in.hour, in.minute, in.texts, in.points)
                                 ELSE fromJSON(in)
         IN /\ slot' = IF Failed(d) THEN slot ELSE [slot EXCEPT ![Bindings[i]] = d]
            /\ lastOp' = [op |-> "construct", via |-> via, binding |-> Bindings[i],
                          input |-> in,
                          error |-> IF Failed(d) THEN d.error ELSE NoError]
    /\ cmp' = NoComparison
    /\ UNCHANGED serverVars
    /\ UNCHANGED clientVars

\* DankTime.fromJSON(x.toJSON())
RoundTrip ==
  \E x \in BindingSet :
    /\ Bound(x)
    /\ lastOp' = [op |-> "roundTrip", binding |-> x, literal |-> toJSON(slot[x]),
                  result |-> fromJSON(toJSON(slot[x]))]
    /\ UNCHANGED <<slot, cmp>>
    /\ UNCHANGED serverVars
    /\ UNCHANGED clientVars

\* x.points = points
AssignPoints ==
  \E x \in BindingSet, points \in PointsIn :
    /\ Bound(x)
    /\ LET d == SetPoints(slot[x], points)
       IN /\ slot' = IF Failed(d) THEN slot ELSE [slot EXCEPT ![x] = d]
          /\ lastOp' = [op |-> "setPoints", binding |-> x, points |-> points,
                        error |-> IF Failed(d) THEN d.error ELSE NoError]
    /\ UNCHANGED cmp
    /\ UNCHANGED serverVars
    /\ UNCHANGED clientVars

\* x.hasText(query)
QueryText ==
  \E x \in BindingSet, query \in Queries :
    /\ Bound(x)
    /\ lastOp' = [op |-> "hasText", binding |-> x, query |-> query,
                  result |-> hasText(slot[x], query)]
    /\ UNCHANGED <<slot, cmp>>
    /\ UNCHANGED serverVars
    /\ UNCHANGED clientVars

\* DankTime.compare(x, y) for every two objects held, as a sort evaluates it
CompareAll ==
  /\ \E x \in BindingSet : Bound(x)
  /\ cmp' = [p \in {q \in BindingSet \X BindingSet : Bound(q[1]) /\ Bound(q[2])} |->
               compare(slot[p[1]], slot[p[2]])]
  /\ lastOp' = [op |-> "compare"]
  /\ UNCHANGED slot
  /\ UNCHANGED serverVars
  /\ UNCHANGED clientVars

\* --------------------------------------------------------- TelegramClient
developerUserId == 100805902
BotUsername == "dankbot"
RefusalText == "This option is only available to admins!"
WarningText == "Failed to retrieve admin list! See server console."

\* The BotCommand objects callers register; the first two have the same name.
BotCommands == << [name |-> "settings", adminOnly |-> TRUE],
                  [name |-> "settings", adminOnly |-> FALSE],
                  [name |-> "help", adminOnly |-> FALSE] >>
CommandIds == 1..Len(BotCommands)
CommandNames == {BotCommands[c].name : c \in CommandIds}
\* What a command's action returns.
ActionText(c) == IF c = 1 THEN "first" ELSE IF c = 2 THEN "second" ELSE "third"

Senders == {developerUserId, 1, 2}
Messages == [command : CommandNames, chatType : {"private", "group"}, from : Senders]
NoMessage == [command |-> "none"]
\* What bot.getChatAdministrators settles with: a rejection, or a list of user ids.
AdministratorReplies == {[ok |-> FALSE, admins |-> {}],
                         [ok |-> TRUE, admins |-> {}],
                         [ok |-> TRUE, admins |-> {1}]}

\* userIsAllowedToExecuteCommand, line 81: no administrator list is asked for
AllowedWithoutAdministrators(msg, botCommand) ==
  ~botCommand.adminOnly \/ msg.chatType = "private" \/ msg.from = developerUserId

\* userIsAllowedToExecuteCommand, lines 87-92
IsListed(admins, msg) == \E admin \in admins : admin = msg.from

\* executeCommand up to its await: userIsAllowedToExecuteCommand has returned
\* true, or waits for bot.getChatAdministrators
StartExecution(msg, c) ==
  [command |-> c,
   state |-> IF AllowedWithoutAdministrators(msg, BotCommands[c])
               THEN "allowed" ELSE "awaitingAdmins",
   held |-> commands[msg.command],   \* what the map holds under the name at arrival
   fetched |-> "no", admins |-> {}, invoked |-> FALSE, reply |-> "", threw |-> FALSE]

\* userIsAllowedToExecuteCommand after bot.getChatAdministrators settled
AdministratorsSettled(e, msg, r) ==
  [e EXCEPT !.state = IF ~r.ok THEN "failed"
                      ELSE IF IsListed(r.admins, msg) THEN "allowed" ELSE "denied",
            !.fetched = IF r.ok THEN "ok" ELSE "rejected",
            !.admins = r.admins]

\* An executeCommand that goes on to the action when the list could not be fetched.
executeCommandAllowingOnFailure(e, actionThrows) ==
  IF e.state = "denied"
    THEN [e EXCEPT !.state = "done", !.reply = RefusalText]
    ELSE [e EXCEPT !.state = "done", !.invoked = TRUE, !.threw = actionThrows,
                   !.reply = IF actionThrows THEN "" ELSE ActionText(e.command)]

\* executeCommand after its await, lines 62-71
executeCommand(e, actionThrows) ==
  IF e.state = "failed"
    THEN [e EXCEPT !.state = "done", !.reply = WarningText]
  ELSE IF e.state = "denied"
    THEN [e EXCEPT !.state = "done", !.reply = RefusalText]
  ELSE [e EXCEPT !.state = "done", !.invoked = TRUE, !.threw = actionThrows,
                 !.reply = IF actionThrows THEN "" ELSE ActionText(e.command)]

\* command.getRegex(botUsername): the texts /name and /name@botUsername
Matches(h, msg) == BotCommands[h.command].name = msg.command /\ h.username = BotUsername

\* The handlers the bot calls for a text: every matching one, or the first only.
CalledHandlers(msg) ==
  LET matching == {i \in 1..Len(textHandlers) : Matches(textHandlers[i], msg)}
  IN IF onlyFirstMatch THEN {i \in matching : \A j \in matching : i <= j}
                       ELSE matching

\* A registerCommand call stands at its await: "awaiting" until the promise it
\* was handed settles, "resuming" once the reaction that continues it is queued.
Suspended(r) == r.state \in {"awaiting", "resuming"}

\* The registerCommand call whose continuation is next: the reactions of one
\* promise run in the order the awaits registered them, and the job queue is
\* first in, first out.
FirstAwaiting(i) ==
  /\ i \in 1..Len(registrations)
  /\ Suspended(registrations[i])
  /\ \A j \in 1..(i - 1) : ~Suspended(registrations[j])

\* The registrations as bot.getMe() settling leaves them: every call waiting on
\* the shared promise has its continuation queued, in the order of the calls.
Resumed(rs) ==
  [i \in 1..Len(rs) |-> IF rs[i].state = "awaiting"
                          THEN [rs[i] EXCEPT !.state = "resuming"] ELSE rs[i]]

\* registerCommand(command) up to its await: commands.set, then getBotUsername()
\* answers from the cache, hands out the promise it has, or requests bot.getMe().
\* The caller is a task or the continuation of an earlier call's caller: it runs
\* once the reactions queued by bot.getMe() settling have run.
RegisterCommand ==
  \E c \in CommandIds :
    /\ \A i \in 1..Len(registrations) : registrations[i].command # c
    /\ \A i \in 1..Len(registrations) : registrations[i].state # "resuming"
    /\ commands' = [commands EXCEPT ![BotCommands[c].name] = c]
    /\ registrations' = Append(registrations, [command |-> c, state |-> "awaiting"])
    /\ IF cachedBotUsername = "" /\ botUsernamePromise = "null"
         THEN botUsernamePromise' = "pending" /\ getMeCalls' = getMeCalls + 1
         ELSE UNCHANGED <<botUsernamePromise, getMeCalls>>
    /\ UNCHANGED <<cachedBotUsername, textHandlers, onlyFirstMatch, message, executions>>
    /\ UNCHANGED serverVars
    /\ UNCHANGED dankVars

\* bot.getMe() fulfils: the then-callback of getBotUsername, lines 103-107
GetMeResolves ==
  /\ botUsernamePromise = "pending"
  /\ cachedBotUsername' = BotUsername
  /\ botUsernamePromise' = "null"
  /\ registrations' = Resumed(registrations)
  /\ UNCHANGED <<commands, getMeCalls, textHandlers, onlyFirstMatch, message, executions>>
  /\ UNCHANGED serverVars
  /\ UNCHANGED dankVars

\* bot.getMe() rejects: the then-callback does not run and the promise stays
GetMeRejects ==
  /\ botUsernamePromise = "pending"
  /\ botUsernamePromise' = "rejected"
  /\ registrations' = Resumed(registrations)
  /\ UNCHANGED <<commands, cachedBotUsername, getMeCalls, textHandlers, onlyFirstMatch,
                 message, executions>>
  /\ UNCHANGED serverVars
  /\ UNCHANGED dankVars

\* registerCommand after its await, lines 39-47: bot.onText(regex, handler), the
\* handler closing over the command of this call
InstallHandler ==
  \E i \in 1..Len(registrations) :
    /\ FirstAwaiting(i)
    /\ cachedBotUsername # ""
    /\ textHandlers' = Append(textHandlers, [command |-> registrations[i].command,
                                             username |-> cachedBotUsername])
    /\ registrations' = [registrations EXCEPT ![i].state = "installed"]
    /\ UNCHANGED <<commands, cachedBotUsername, botUsernamePromise, getMeCalls,
                   onlyFirstMatch, message, executions>>
    /\ UNCHANGED serverVars
    /\ UNCHANGED dankVars

\* registerCommand's await throws: the promise it was handed is rejected
RegistrationRejected ==
  \E i \in 1..Len(registrations) :
    /\ FirstAwaiting(i)
    /\ cachedBotUsername = "" /\ botUsernamePromise = "rejected"
    /\ registrations' = [registrations EXCEPT ![i].state = "failed"]
    /\ UNCHANGED <<commands, cachedBotUsername, botUsernamePromise, getMeCalls,
                   textHandlers, onlyFirstMatch, message, executions>>
    /\ UNCHANGED serverVars
    /\ UNCHANGED dankVars

\* A text arrives that some handler matches: the bot calls the handlers, each of
\* which calls executeCommand(msg, match, command) with its own command. Handlers
\* exist only once the username is cached, and from then on a registerCommand
\* continues in a microtask, before the next text is delivered.
ReceiveMessage ==
  \E msg \in Messages :
    /\ \A i \in DOMAIN executions : executions[i].state = "done"
    /\ \A i \in 1..Len(registrations) : ~Suspended(registrations[i])
    /\ CalledHandlers(msg) # {}
    /\ message' = msg
    /\ executions' = [i \in CalledHandlers(msg) |->
                        StartExecution(msg, textHandlers[i].command)]
    /\ UNCHANGED <<registerVars, onlyFirstMatch>>
    /\ UNCHANGED serverVars
    /\ UNCHANGED dankVars

\* bot.getChatAdministrators(msg.chat.id) settles
AdministratorsReply ==
  \E i \in DOMAIN executions, r \in AdministratorReplies :
    /\ executions[i].state = "awaitingAdmins"
    /\ executions' = [executions EXCEPT ![i] = AdministratorsSettled(@, message, r)]
    /\ UNCHANGED <<registerVars, onlyFirstMatch, message>>
    /\ UNCHANGED serverVars
    /\ UNCHANGED dankVars

\* executeCommand resumes and returns or throws; the handler sends the reply
ExecuteCommand ==
  \E i \in DOMAIN executions, actionThrows \in BOOLEAN :
    /\ executions[i].state \in {"allowed", "denied", "failed"}
    /\ executions' = [executions EXCEPT ![i] = executeCommand(@, actionThrows)]
    /\ UNCHANGED <<registerVars, onlyFirstMatch, message>>
    /\ UNCHANGED serverVars
    /\ UNCHANGED dankVars

\* -------------------------------------------------------------- initial state
\* Chats start with one of two ledgers, alternating along the registry.
InitLedger(c) ==
  IF c % 2 = 1
    THEN [u \in Users |-> IF u = "A" THEN [score |-> 1, lastScoreChange |-> 0 - HalfDay]
                                     ELSE [score |-> 0, lastScoreChange |-> 0]]
    ELSE [u \in Users |-> IF u = "A" THEN [score |-> 2, lastScoreChange |-> 0 - HalfDay]
                                     ELSE [score |-> 1, lastScoreChange |-> HalfDay]]

BaseInit ==
  /\ phase = "constructed"
  /\ clock = HalfDay
  /\ firedAt = 0 - 1
  /\ now = 0
  /\ cur = 1
  /\ step = 1
  /\ running \in [Chats -> BOOLEAN]
  /\ hardcoreMode \in [Chats -> BOOLEAN]
  /\ users = [c \in Chats |-> InitLedger(c)]
  /\ dankTimes = [c \in Chats |-> ManualDankTimes]
  /\ randomDankTimes = [c \in Chats |-> <<>>]
  /\ generation = [c \in Chats |-> 0]
  /\ timers = {}
  /\ nextHandle = 1
  /\ callLog = <<>>
  /\ lastError = NoError
  /\ usersAtFire = users
  /\ storage = NoFile
  /\ lastSave = [trigger |-> "none", outcome |-> "none", calls |-> 0,
                 previous |-> [trigger |-> "none", outcome |-> "none"]]
  /\ intervalArmed = FALSE
  /\ lastApi = [chat |-> 0, op |-> "none", error |-> NoError]
  /\ apiCalls = 0
  /\ apiScheduled = {}
  /\ slot = [x \in BindingSet |-> Unbound]
  /\ lastOp = [op |-> "none"]
  /\ cmp = NoComparison
  /\ commands = [n \in CommandNames |-> 0]
  /\ cachedBotUsername = ""
  /\ botUsernamePromise = "null"
  /\ getMeCalls = 0
  /\ registrations = <<>>
  /\ textHandlers = <<>>
  /\ message = NoMessage
  /\ executions = <<>>

Init == BaseInit /\ onlyFirstMatch = FALSE

Next == Run \/ GenerateAndSchedule \/ RunDone \/ Tick \/ NightlyFire \/ NightlyCall \/ NightlySkip \/ NightlyDone

Spec == Init /\ [][Next]_vars

\* The server with its persistence triggers and its exit, followed from startup
\* through the first nightly update.
FirstDayTick == Tick /\ clock < Day
PersistNext ==
  \/ Run \/ GenerateAndSchedule \/ RunDone \/ FirstDayTick
  \/ NightlyFire \/ NightlyCall \/ NightlySkip \/ NightlyDone
  \/ PeriodicSnapshot \/ Exit
PersistInit == Init /\ hardcoreMode = [c \in Chats |-> TRUE]
PersistSpec == PersistInit /\ [][PersistNext]_vars

\* The scheduler driven directly, after startup.
SchedInit == Init /\ hardcoreMode = [c \in Chats |-> FALSE]
                  /\ running = [c \in Chats |-> TRUE]
SchedNext == Run \/ GenerateAndSchedule \/ RunDone \/ ApiCall
SchedSpec == SchedInit /\ [][SchedNext]_vars

\* The server from startup through its nightly updates, with chats started and
\* stopped by commands in between.
IdleTick == Tick /\ phase = "idle"
\* Commands arrive during the day, between one midnight and the next.
DaytimeSetRunning == SetRunning /\ clock % Day # 0
\* Every generation draws the same hour: the lists differ by generation only.
LateDraw ==
  \A c \in Chats : \A i \in 1..Len(randomDankTimes'[c]) : randomDankTimes'[c][i].hour = 23
LateGenerateAndSchedule == GenerateAndSchedule /\ LateDraw
LateNightlyCall == NightlyCall /\ LateDraw
FlagInit == Init /\ hardcoreMode = [c \in Chats |-> FALSE]
                 /\ running = [c \in Chats |-> TRUE]
FlagNext ==
  \/ Run \/ LateGenerateAndSchedule \/ RunDone \/ IdleTick
  \/ NightlyFire \/ LateNightlyCall \/ NightlySkip \/ NightlyDone \/ DaytimeSetRunning
FlagSpec == FlagInit /\ [][FlagNext]_vars

\* The DankTime value type, driven by a caller that constructs, serialises,
\* assigns, queries and compares.
DankInit == Init /\ hardcoreMode = [c \in Chats |-> FALSE]
                 /\ running = [c \in Chats |-> TRUE]
DankNext == Construct \/ RoundTrip \/ AssignPoints \/ QueryText \/ CompareAll
DankSpec == DankInit /\ [][DankNext]_vars

\* The Telegram client: commands are registered, texts arrive and are executed.
ClientInit == BaseInit /\ onlyFirstMatch \in BOOLEAN
                       /\ hardcoreMode = [c \in Chats |-> FALSE]
                       /\ running = [c \in Chats |-> TRUE]
ClientNext ==
  \/ RegisterCommand \/ GetMeResolves \/ GetMeRejects \/ InstallHandler
  \/ RegistrationRejected \/ ReceiveMessage \/ AdministratorsReply \/ ExecuteCommand
ClientSpec == ClientInit /\ [][ClientNext]_vars

\* The Telegram client under the scheduling of the runtime: the request to
\* bot.getMe() settles one way or the other, and a queued continuation runs.
GetMeSettles == GetMeResolves \/ GetMeRejects
ClientFairSpec ==
  /\ ClientSpec
  /\ WF_vars(GetMeSettles)
  /\ WF_vars(InstallHandler)
  /\ WF_vars(RegistrationRejected)

\* ------------------------------------------------------------------ claims
\* The calls the latest nightly fire made for chat c, and their names.
LogOf(c) == SelectSeq(callLog, LAMBDA e : e.chat = c)
OpsOf(c) == [i \in 1..Len(LogOf(c)) |-> LogOf(c)[i].op]
Threw(c) == \E i \in 1..Len(callLog) : callLog[i].chat = c /\ callLog[i].error # NoError
Completed(c) == OpsOf(c) = CycleSteps /\ ~Threw(c)
\* A nightly callback has run and is over: it returned, or an exception left it.
FireOver == firedAt >= 0 /\ phase \in {"idle", "uncaught", "exited"}
TimersOf(c) == {t \in timers : t.chat = c}
ChatView(c) == [users |-> users[c], dankTimes |-> dankTimes[c],
                randomDankTimes |-> randomDankTimes[c], generation |-> generation[c],
                timers |-> TimersOf(c)]

\* C1: once a nightly fire is over, every running chat that did not itself throw
\* has received exactly the seven calls of CycleSteps, in that order.
C1_ExactSequenceForEveryRunningChat ==
  FireOver => \A c \in Chats : (running[c] /\ ~Threw(c)) => OpsOf(c) = CycleSteps

\* C2: when a running chat's regeneration is the next call, the chat has no live
\* random-slot or leaderboard timer; and every live random-slot timer of a chat
\* refers to a dank time of the chat's current random list.
C2_NoStaleRandomTimer ==
  /\ (phase = "nightly" /\ cur <= NumChats /\ running[cur]
        /\ CycleSteps[step] = "generateRandomDankTimes")
       => /\ LiveTimers(timers, cur, "random") = {}
          /\ LiveTimers(timers, cur, "leaderboard") = {}
  /\ \A c \in Chats : \A t \in LiveTimers(timers, c, "random") :
       t.gen = generation[c] /\ t.idx \in 1..Len(randomDankTimes[c])

\* C2 witness: a cycle has completed and the chat's live random-slot timers are
\* those of a regenerated list.
C2_Witness ==
  \E c \in Chats : /\ FireOver /\ Completed(c) /\ generation[c] >= 2
                   /\ Cardinality(LiveTimers(timers, c, "random")) = NumRandom

\* C3: once a nightly fire is over in which some chat threw, every other running
\* chat has completed its full cycle.
C3_FailureDoesNotAbortOtherChats ==
  FireOver => \A c \in Chats, d \in Chats :
                (Threw(c) /\ d # c /\ running[d]) => Completed(d)

\* C4: no step of the nightly callback changes a chat that is not running, and the
\* callback makes no call for it.
C4_StoppedChatUntouched ==
  [][ (phase = "nightly" \/ phase' = "nightly")
        => \A c \in Chats : ~running[c] => (ChatView(c)' = ChatView(c) /\ LogOf(c)' = <<>>)
    ]_vars

\* C4 witness: a fire is over in which one chat completed its cycle and another,
\* not running, was passed over.
C4_Witness ==
  FireOver /\ \E c \in Chats, d \in Chats : ~running[c] /\ TimersOf(c) = {} /\ Completed(d)

\* C5: a direct scheduleRandomDankTimesOfChat call on a chat whose random category a
\* previous such call scheduled, with no unschedule since, raises
\* AlreadyScheduledError and leaves every timer as it was.
C5_SecondScheduleRefused ==
  [][ \A c \in Chats :
        (c \in apiScheduled /\ apiCalls' = apiCalls + 1 /\ lastApi'.chat = c
           /\ lastApi'.op = "scheduleRandomDankTimesOfChat")
        => (lastApi'.error = AlreadyScheduledError /\ timers' = timers)
    ]_vars

\* C5 witness: the second call has been made and refused, the first schedule's
\* timers live.
C5_Witness ==
  /\ lastApi.op = "scheduleRandomDankTimesOfChat"
  /\ lastApi.error = AlreadyScheduledError
  /\ lastApi.chat \in apiScheduled
  /\ Cardinality(LiveTimers(timers, lastApi.chat, "random")) = NumRandom

\* C6: no step of the nightly callback changes a chat's manual dank times or its
\* manual timers, nor any timer of a chat other than the one being processed.
C6_ManualAndOtherChatsUntouched ==
  [][ phase = "nightly"
        => /\ dankTimes' = dankTimes
           /\ \A c \in Chats :
                /\ LiveTimers(timers', c, "manual") = LiveTimers(timers, c, "manual")
                /\ c # cur => TimersOf(c)' = TimersOf(c)
    ]_vars

\* C6 witness: a running chat has completed a cycle, its random list regenerated,
\* with its manual timers live.
C6_Witness ==
  \E c \in Chats : /\ FireOver /\ Completed(c) /\ generation[c] >= 2
                   /\ Cardinality(LiveTimers(timers, c, "manual")) = Len(dankTimes[c])
                   /\ Len(dankTimes[c]) > 0
                   /\ \E d \in Chats : d # c /\ TimersOf(d) # {}

\* C7: every hardcoreModeCheck call of a fire receives the clock value read when
\* the fire began, whatever the clock shows when the call is made.
C7_OneTimestampPerFire ==
  /\ firedAt >= 0 => now = firedAt
  /\ \A i \in 1..Len(callLog) :
       callLog[i].op = "hardcoreModeCheck" => callLog[i].arg = firedAt

\* C7 witness: two chats were checked in one fire, the second after the clock moved.
C7_Witness ==
  \E i \in 1..Len(callLog), j \in 1..Len(callLog) :
    /\ i < j
    /\ callLog[i].op = "hardcoreModeCheck" /\ callLog[j].op = "hardcoreModeCheck"
    /\ callLog[i].chat # callLog[j].chat
    /\ callLog[i].at = firedAt /\ callLog[j].at > firedAt

\* Members the hardcore check of the latest fire had to punish in chat c.
DueForPunishment(c) ==
  {u \in DOMAIN usersAtFire[c] :
     usersAtFire[c][u].score > 0 /\ now - usersAtFire[c][u].lastScoreChange > Day}

\* C8: after a completed cycle no member of the chat has score zero, and in a
\* hardcore chat every member due for punishment has had the score decremented:
\* the member is in the ledger with the decremented score, or the decrement
\* brought the score to zero and the member is gone.
C8_PunishedThenPruned ==
  \A c \in Chats : (FireOver /\ Completed(c)) =>
    /\ \A u \in DOMAIN users[c] : users[c][u].score # 0
    /\ hardcoreMode[c] => \A u \in DueForPunishment(c) :
         IF usersAtFire[c][u].score - Punishment = 0
           THEN u \notin DOMAIN users[c]
           ELSE /\ u \in DOMAIN users[c]
                /\ users[c][u].score = usersAtFire[c][u].score - Punishment

\* C8 witness: a completed cycle of a hardcore chat punished one member down to
\* zero and removed that member, and punished another who stays.
C8_Witness ==
  \E c \in Chats, d \in Chats :
    /\ FireOver /\ Completed(c) /\ Completed(d) /\ hardcoreMode[c] /\ hardcoreMode[d]
    /\ \E u \in DueForPunishment(c) :
         usersAtFire[c][u].score = Punishment /\ u \notin DOMAIN users[c]
    /\ \E u \in DueForPunishment(d) :
         u \in DOMAIN users[d] /\ users[d][u].score = usersAtFire[d][u].score - Punishment

\* C9: an exited process ran the shutdown save exactly once as its last handler;
\* if that save succeeded the file is the snapshot of the whole registry as it is
\* at exit; and whenever there is a file it covers every chat of the registry.
C9_ShutdownSnapshot ==
  /\ phase = "exited" =>
       /\ lastSave.trigger = "shutdown" /\ lastSave.calls = 1
       /\ lastSave.outcome = "done" => storage = Snapshot(Chats)
  /\ storage # NoFile => DOMAIN storage = Chats

\* C9 witness: the process exited right after a periodic snapshot, both saved,
\* and the file is the shutdown's snapshot.
C9_Witness ==
  /\ phase = "exited" /\ lastSave.outcome = "done"
  /\ lastSave.previous = [trigger |-> "periodic", outcome |-> "done"]
  /\ storage = Snapshot(Chats) /\ firedAt >= 0

ValidInput(in) ==
  /\ in.hour \in 0..23 /\ in.minute \in 0..59
  /\ Len(in.texts) >= 1 /\ in.points \in 1..100
\* Strings that are equal when case is ignored.
CaseClasses == {{"Go", "go", "GO"}, {"Potato", "potato", "POTATO"}}
SameIgnoringCase(s, t) == s = t \/ \E cls \in CaseClasses : s \in cls /\ t \in cls
\* The texts of a list, as a set.
TextSet(texts) == {texts[i] : i \in 1..Len(texts)}

\* C11: a construction from in-contract arguments succeeds and the object has the
\* hour, minute and points given and texts that are those given; and
\* fromJSON(d.toJSON()) succeeds and equals d in hour, minute, texts and points.
C11_ValidConstructsAndRoundTrips ==
  /\ (lastOp.op = "construct" /\ ValidInput(lastOp.input)) =>
       /\ lastOp.error = NoError
       /\ Bound(lastOp.binding)
       /\ slot[lastOp.binding].hour = lastOp.input.hour
       /\ slot[lastOp.binding].minute = lastOp.input.minute
       /\ slot[lastOp.binding].points = lastOp.input.points
       /\ TextSet(slot[lastOp.binding].texts) = TextSet(lastOp.input.texts)
  /\ lastOp.op = "roundTrip" =>
       /\ ~Failed(lastOp.result)
       /\ lastOp.result.hour = slot[lastOp.binding].hour
       /\ lastOp.result.minute = slot[lastOp.binding].minute
       /\ lastOp.result.texts = slot[lastOp.binding].texts
       /\ lastOp.result.points = slot[lastOp.binding].points

\* C11 witness: an object built at the far end of every range from a list with a
\* repeated text has been round-tripped, and the result has its two texts in order.
C11_Witness ==
  /\ lastOp.op = "roundTrip" /\ lastOp.binding = "a"
  /\ slot["a"].hour = 23 /\ slot["a"].minute = 59 /\ slot["a"].points = 100
  /\ slot["a"].texts = <<"go", "Potato">>
  /\ lastOp.result.texts = <<"go", "Potato">>

\* C12: a construction, by new or by fromJSON, from arguments outside the contract
\* throws and binds no object; an assignment of points outside 1..100 throws; and
\* every object held is within the contract.
C12_InvalidConstructionFails ==
  /\ (lastOp.op = "construct" /\ ~ValidInput(lastOp.input)) =>
       (lastOp.error = RangeError /\ ~Bound(lastOp.binding))
  /\ (lastOp.op = "setPoints" /\ lastOp.points \notin 1..100) =>
       lastOp.error = RangeError
  /\ \A x \in BindingSet : Bound(x) => ValidInput(slot[x])

\* C12 witness: fromJSON of a literal whose only fault is hour 24 has thrown.
C12_Witness ==
  /\ lastOp.op = "construct" /\ lastOp.via = "fromJSON"
  /\ lastOp.input.hour = 24 /\ lastOp.input.minute = 59
  /\ lastOp.input.points = 100 /\ Len(lastOp.input.texts) = 3
  /\ lastOp.error = RangeError /\ ~Bound("a")

\* C13: no object holds two texts that are equal when case is ignored.
C13_TextsDedupedIgnoringCase ==
  \A x \in BindingSet : Bound(x) =>
    \A i \in 1..Len(slot[x].texts), j \in 1..Len(slot[x].texts) :
      i # j => ~SameIgnoringCase(slot[x].texts[i], slot[x].texts[j])

\* C14: no operation changes the hour, minute, texts or points of an object that
\* is held.
C14_ImmutableOnceConstructed ==
  [][ \A x \in BindingSet : Bound(x) => slot'[x] = slot[x] ]_vars

\* C15: every evaluated comparison is -1, 0 or 1; it is negative exactly when the
\* first operand's (hour, minute) is lexicographically smaller, zero exactly when
\* hour and minute are both equal, the negation of the comparison the other way
\* round, and transitive.
C15_CompareIsTotalPreorder ==
  \A p \in DOMAIN cmp :
    LET a == slot[p[1]]
        b == slot[p[2]]
    IN /\ cmp[p] \in {0 - 1, 0, 1}
       /\ cmp[p] < 0 <=> (a.hour < b.hour \/ (a.hour = b.hour /\ a.minute < b.minute))
       /\ cmp[p] = 0 <=> (a.hour = b.hour /\ a.minute = b.minute)
       /\ cmp[p] = 0 - cmp[<<p[2], p[1]>>]
       /\ \A z \in BindingSet :
            (<<p[2], z>> \in DOMAIN cmp /\ cmp[p] <= 0 /\ cmp[<<p[2], z>>] <= 0)
              => cmp[<<p[1], z>>] <= 0

\* C15 witness: three objects have been compared; two of them agree in hour and
\* minute and differ in texts and points, and the third comes later in the same hour.
C15_Witness ==
  /\ \A x \in BindingSet : Bound(x)
  /\ DOMAIN cmp = BindingSet \X BindingSet
  /\ cmp[<<"a", "b">>] = 0 /\ slot["a"].texts # slot["b"].texts
  /\ slot["a"].points # slot["b"].points
  /\ cmp[<<"b", "c">>] = 0 - 1 /\ slot["b"].hour = slot["c"].hour
  /\ cmp[<<"c", "a">>] = 1

\* C16: hasText returns true exactly when some text of the object equals the
\* query when case is ignored.
C16_HasTextIgnoresCase ==
  lastOp.op = "hasText" =>
    (lastOp.result <=>
       \E i \in 1..Len(slot[lastOp.binding].texts) :
         SameIgnoringCase(slot[lastOp.binding].texts[i], lastOp.query))

\* C16 witness: an object holding "Potato" has answered true to the query "POTATO".
C16_Witness ==
  /\ lastOp.op = "hasText" /\ lastOp.query = "POTATO" /\ lastOp.result
  /\ "Potato" \in TextSet(slot[lastOp.binding].texts)
  /\ "POTATO" \notin TextSet(slot[lastOp.binding].texts)

\* ------------------------------------------------- claims: TelegramClient
\* The latest registerCommand call made for a name.
LatestRegistration(n) ==
  LET made == {i \in 1..Len(registrations) : BotCommands[registrations[i].command].name = n}
  IN CHOOSE i \in made : \A j \in made : j <= i
Registered(n) == \E i \in 1..Len(registrations) : BotCommands[registrations[i].command].name = n

\* C17: the commands map holds, under each name, the command of the latest
\* registerCommand call for that name; and for a text that arrived when every
\* registration was complete, the only action invoked is that of the command the
\* map held under the name.
C17_LaterRegistrationOverrides ==
  /\ \A n \in CommandNames :
       Registered(n) => commands[n] = registrations[LatestRegistration(n)].command
  /\ \A h \in DOMAIN executions :
       executions[h].invoked => executions[h].command = executions[h].held

\* The sender of the message needs to be an administrator to execute the command.
Restricted(e) ==
  /\ BotCommands[e.command].adminOnly
  /\ message.chatType # "private"
  /\ message.from # developerUserId
\* The administrator list was retrieved and contains the sender.
ListedSender(e) == e.fetched = "ok" /\ message.from \in e.admins

\* C20: the action of an execution is invoked only for an authorised sender: where
\* the sender needs to be an administrator, only after the list was retrieved and
\* contains the sender; and such an execution, when the list lacks the sender or
\* could not be retrieved, ends without invoking the action and without throwing,
\* returning the refusal text or the warning text.
C20_OnlyAuthorisedSendersExecute ==
  \A h \in DOMAIN executions :
    LET e == executions[h]
    IN /\ e.invoked => (~Restricted(e) \/ ListedSender(e))
       /\ (Restricted(e) /\ e.state = "done" /\ ~ListedSender(e)) =>
            /\ ~e.invoked /\ ~e.threw
            /\ e.fetched \in {"ok", "rejected"}
            /\ e.reply = IF e.fetched = "rejected" THEN WarningText ELSE RefusalText
       /\ (Restricted(e) /\ e.state = "done" /\ ListedSender(e)) => e.invoked

\* C20 witness: for one text of a user who is no administrator, the admin-only
\* command was refused after a list naming someone else was retrieved, while the
\* unrestricted command of the same name ran.
C20_Witness ==
  \E h \in DOMAIN executions, k \in DOMAIN executions :
    /\ Restricted(executions[h]) /\ executions[h].state = "done"
    /\ executions[h].fetched = "ok" /\ executions[h].admins = {1} /\ message.from = 2
    /\ executions[h].reply = RefusalText /\ ~executions[h].invoked
    /\ ~Restricted(executions[k]) /\ executions[k].invoked

\* ------------------------------------------- claims: callbacks and commands
\* A chat's nightly cycle is in progress: some of its calls are made, not all, and
\* none threw.
CycleInProgress(c) == OpsOf(c) # <<>> /\ ~Completed(c) /\ ~Threw(c)

CategoryOf(op) == IF op = "scheduleRandomDankTimesOfChat" THEN "random" ELSE "leaderboard"
UnscheduleOf(op) ==
  IF op = "scheduleRandomDankTimesOfChat" THEN "unscheduleRandomDankTimesOfChat"
                                          ELSE "unscheduleAutoLeaderboardsOfChat"

\* C19: no call of the server is refused with AlreadyScheduledError; when the
\* nightly callback makes a schedule call for a chat, the chat has no live timer
\* of that category and the callback has, in the same fire and since any earlier
\* schedule of that category, made the matching unschedule call for the chat; and
\* when startup schedules a running chat, the chat has no live timer.
C19_ScheduleOnlyAfterUnschedule ==
  [][ /\ lastError' # AlreadyScheduledError
      /\ (phase = "nightly" /\ Len(callLog') = Len(callLog) + 1) =>
           LET e == callLog'[Len(callLog')]
           IN e.op \in {"scheduleRandomDankTimesOfChat", "scheduleAutoLeaderboardsOfChat"} =>
                /\ LiveTimers(timers, e.chat, CategoryOf(e.op)) = {}
                /\ \E i \in 1..Len(callLog) :
                     /\ callLog[i].chat = e.chat /\ callLog[i].op = UnscheduleOf(e.op)
                     /\ \A j \in (i + 1)..Len(callLog) :
                          ~(callLog[j].chat = e.chat /\ callLog[j].op = e.op)
      /\ (phase = "starting" /\ cur' = cur + 1 /\ running[cur]) => TimersOf(cur) = {}
    ]_vars

\* C19 witness: the second nightly fire is over; one chat, scheduled at startup,
\* completed its cycle with its manual timers live, and another, stopped by a
\* command that cancelled its timers and started again by one that scheduled
\* nothing, completed its cycle and has random and leaderboard timers only.
C19_Witness ==
  /\ FireOver /\ firedAt > Day /\ apiCalls >= 2
  /\ \E c \in Chats, d \in Chats :
       /\ Completed(c) /\ Completed(d)
       /\ LiveTimers(timers, c, "manual") # {} /\ generation[c] >= 3
       /\ LiveTimers(timers, d, "manual") = {}
       /\ Cardinality(LiveTimers(timers, d, "random")) = NumRandom
       /\ LiveTimers(timers, d, "leaderboard") # {}

\* The place of command c among the registerCommand calls made, 0 if none.
CallOf(c) ==
  IF \E i \in 1..Len(registrations) : registrations[i].command = c
    THEN CHOOSE i \in 1..Len(registrations) : registrations[i].command = c
    ELSE 0
HandlerInstalled(c) == \E h \in 1..Len(textHandlers) : textHandlers[h].command = c
\* bot.getMe() was requested at most once, and a call that found the request
\* pending or the username cached made no request of its own.
GetMeRequestedAtMostOnce ==
  /\ getMeCalls <= 1
  /\ (botUsernamePromise # "null" \/ cachedBotUsername # "") => getMeCalls = 1
\* Every installed handler was built with the one username bot.getMe() gave.
HandlersCarryTheUsername ==
  \A h \in 1..Len(textHandlers) :
    textHandlers[h].username = BotUsername /\ cachedBotUsername = BotUsername
\* The handlers stand in the order their registerCommand calls were made.
HandlersInCallOrder ==
  \A g \in 1..Len(textHandlers), h \in 1..Len(textHandlers) :
    g < h => CallOf(textHandlers[g].command) < CallOf(textHandlers[h].command)

\* C21: under any interleaving of registerCommand calls, bot.getMe() is requested
\* at most once, every installed handler carries the one username, handlers are
\* installed in the order of the calls, and every command a registerCommand call
\* was made for eventually has its onText handler installed.
C21_EveryRegistrationGetsItsHandler ==
  /\ [](GetMeRequestedAtMostOnce /\ HandlersCarryTheUsername /\ HandlersInCallOrder)
  /\ \A c \in CommandIds : (CallOf(c) # 0) ~> HandlerInstalled(c)
====
